---- MODULE Spec2Model ----
(***************************************************************************)
(* A model of three pieces of the web frontend:                            *)
(*   - hooks/useSwapCallback.tsx : the asynchronous swap callback          *)
(*   - the ethers adapter (clientToProvider, useEthersProvider,            *)
(*     useEthersWeb3Provider) with its per-client provider cache           *)
(*   - components/Web3Provider/wagmiConfig.ts : orderedTransportUrls and   *)
(*     the fallback transport built from it                                *)
(* JavaScript's undefined is the string "undefined" where the value is a   *)
(* scalar, and a record of the same shape with "undefined" fields where    *)
(* the value is an object.                                                 *)
(***************************************************************************)
EXTENDS Naturals, Sequences, FiniteSets, TLC

VARIABLES
    account,      \* useAccount(): the wallet's connection state
    cl,           \* what the running/last swap callback closed over (one render)
    pc,           \* position of the swap callback invocation
    calls,        \* calls made by the current invocation, in order
    correctChain, \* line 107: what `await selectChain(swapChainId)` produced
    swapResult,   \* what `await swapCallback()` produced in this invocation
    ret,          \* the value the invocation returned
    error,        \* the error the invocation threw
    providers,    \* the WeakMap<Client, Web3Provider> of the ethers adapter
    constructed,  \* per client: how many Web3Providers were constructed for it
    last,         \* the last adapter call: its arguments and its outcome
    chain,        \* the chain info handed to orderedTransportUrls
    urls,         \* orderedTransportUrls(chain)
    transport,    \* the fallback transport of the client created for chain
    step          \* position of the client construction for chain

swapVars == <<account, cl, pc, calls, correctChain, swapResult, ret, error>>
providerVars == <<providers, constructed, last>>
urlVars == <<chain, urls, transport, step>>
vars == <<account, cl, pc, calls, correctChain, swapResult, ret, error,
          providers, constructed, last, chain, urls, transport, step>>

Undefined == "undefined"

(***************************************************************************)
(* Chains.  UniverseChainId, isEVMChain and useSupportedChainId live in    *)
(* the uniswap package; here: two EVM chains, one supported non-EVM chain, *)
(* and one chain id a wallet can be on that the app does not support.      *)
(***************************************************************************)
UniverseChainIds == {"Mainnet", "Base", "Solana"}

AccountChainIds == UniverseChainIds \cup {"Unsupported", Undefined}

isEVMChain(chainId) == chainId \in {"Mainnet", "Base"}

useSupportedChainId(chainId) ==
    IF chainId \in UniverseChainIds THEN chainId ELSE Undefined

(***************************************************************************)
(* Trades (state/routing/types): a classic trade, a UniswapX trade, or a   *)
(* trade that is neither (a preview trade); NoTrade is `undefined`.        *)
(***************************************************************************)
NoTrade == [variant |-> Undefined, tradeType |-> Undefined, offchainOrderType |-> Undefined]

Trades ==
    { [variant |-> "classic", tradeType |-> "EXACT_INPUT", offchainOrderType |-> Undefined],
      [variant |-> "classic", tradeType |-> "EXACT_OUTPUT", offchainOrderType |-> Undefined],
      [variant |-> "uniswapx", tradeType |-> "EXACT_INPUT", offchainOrderType |-> "DUTCH_V2"],
      [variant |-> "uniswapx", tradeType |-> "EXACT_OUTPUT", offchainOrderType |-> "PRIORITY"],
      [variant |-> "preview", tradeType |-> "EXACT_INPUT", offchainOrderType |-> Undefined] }

isUniswapXTrade(trade) == trade.variant = "uniswapx"

isClassicTrade(trade) == trade.variant = "classic"

(***************************************************************************)
(* Results of the two strategies: the UniswapX callback resolves to an     *)
(* order (UniswapX, UniswapXv2), the universal-router callback to a        *)
(* transaction (Classic) with or without a deadline.                       *)
(***************************************************************************)
NoResponse == [orderHash |-> Undefined, deadline |-> Undefined,
               encodedOrder |-> Undefined, hash |-> Undefined]

OrderResponses ==
    { [orderHash |-> "h1", deadline |-> "t1", encodedOrder |-> "e1", hash |-> Undefined],
      [orderHash |-> "h2", deadline |-> "t2", encodedOrder |-> "e2", hash |-> Undefined] }

TxResponses ==
    { [orderHash |-> Undefined, deadline |-> Undefined, encodedOrder |-> Undefined, hash |-> "x1"],
      [orderHash |-> Undefined, deadline |-> Undefined, encodedOrder |-> Undefined, hash |-> "x2"] }

NoResult == [type |-> Undefined, response |-> NoResponse, deadline |-> Undefined]

StrategyResults(strategy) ==
    IF strategy = "uniswapXSwapCallback"
    THEN [type : {"UniswapX", "UniswapXv2"}, response : OrderResponses, deadline : {Undefined}]
    ELSE [type : {"Classic"}, response : TxResponses, deadline : {Undefined, "t9"}]

SwapResults ==
    StrategyResults("uniswapXSwapCallback") \cup StrategyResults("universalRouterSwapCallback")

Accounts == [isConnected : BOOLEAN, address : {Undefined, "0xA"}, chainId : AccountChainIds]

Call(fn, args) == [fn |-> fn, args |-> args]

\* variant of SelectSwapCallback: the two strategies swapped
SelectSwapCallbackSwapped(trade) ==
    IF isUniswapXTrade(trade) THEN "universalRouterSwapCallback" ELSE "uniswapXSwapCallback"

\* useSwapCallback.tsx line 95: the strategy is picked by the trade's variant.
SelectSwapCallback(trade) ==
    IF isUniswapXTrade(trade) THEN "uniswapXSwapCallback" ELSE "universalRouterSwapCallback"

\* useSwapCallback.tsx lines 72-95: one render of the hook; what the returned
\* callback closes over, and the trade each strategy hook was given.
useSwapCallback(trade, acct, swapChainId) ==
    [ trade |-> trade,
      isConnected |-> acct.isConnected,
      address |-> acct.address,
      supportedConnectedChainId |-> useSupportedChainId(acct.chainId),
      swapChainId |-> swapChainId,
      uniswapXTrade |-> IF isUniswapXTrade(trade) THEN trade ELSE NoTrade,
      universalRouterTrade |-> IF isClassicTrade(trade) THEN trade ELSE NoTrade,
      swapCallback |-> SelectSwapCallback(trade) ]

\* variant of Validate: the isEVMChain test (line 104) left out
ValidateNoEVMCheck(c) ==
    IF c.trade = NoTrade THEN "missing trade"
    ELSE IF ~c.isConnected \/ c.address = Undefined THEN "wallet must be connected"
    ELSE IF c.swapChainId = Undefined THEN "missing swap chainId"
    ELSE "ok"

\* lines 98-105: the validation that throws before anything is called.
Validate(c) ==
    IF c.trade = NoTrade THEN "missing trade"
    ELSE IF ~c.isConnected \/ c.address = Undefined THEN "wallet must be connected"
    ELSE IF c.swapChainId = Undefined THEN "missing swap chainId"
    ELSE IF ~isEVMChain(c.swapChainId) THEN "non-EVM chain"
    ELSE "ok"

\* variant of NeedsSelectChain: only the first operand of line 106
NeedsSelectChainOnlyWhenMissing(c) == c.supportedConnectedChainId = Undefined

\* line 106: the wallet has to be switched to the swap chain first.
NeedsSelectChain(c) ==
    \/ c.supportedConnectedChainId = Undefined
    \/ c.supportedConnectedChainId # c.swapChainId

\* lines 114-132: the TransactionInfo recorded with the swap.
SwapInfo(c, result) ==
    [ type |-> "Swap",
      isUniswapXOrder |-> result.type = "UniswapX" \/ result.type = "UniswapXv2",
      tradeType |-> IF c.trade.tradeType = "EXACT_INPUT" THEN "EXACT_INPUT" ELSE "EXACT_OUTPUT" ]

\* variant of RecordSwap: the default branch taken for every result type
RecordSwapAlwaysTransaction(c, result) ==
    <<Call("addTransaction", <<result.response, SwapInfo(c, result), result.deadline>>)>>

\* lines 134-149: the swap is recorded as an order or as a transaction.
RecordSwap(c, result) ==
    IF result.type \in {"UniswapX", "UniswapXv2"}
    THEN <<Call("addOrder",
                <<[ offerer |-> c.address,
                    orderHash |-> result.response.orderHash,
                    chainId |-> c.supportedConnectedChainId,
                    expiry |-> result.response.deadline,
                    swapInfo |-> SwapInfo(c, result),
                    encodedOrder |-> result.response.encodedOrder,
                    offchainOrderType |-> IF isUniswapXTrade(c.trade)
                                          THEN c.trade.offchainOrderType
                                          ELSE "DUTCH_AUCTION" ]>>)>>
    ELSE <<Call("addTransaction", <<result.response, SwapInfo(c, result), result.deadline>>)>>

InFlight == {"awaitSelectChain", "awaitSwapCallback"}

\* lines 97-112, up to the first await: the callback is invoked on the closure
\* of the current render.
Invoke(trade, swapChainId) ==
    /\ pc \notin InFlight
    /\ LET c == useSwapCallback(trade, account, swapChainId)
           v == Validate(c)
       IN /\ cl' = c
          /\ ret' = NoResult
          /\ swapResult' = NoResult
          /\ correctChain' = "unset"
          /\ IF v # "ok"
             THEN /\ pc' = "threw"
                  /\ error' = v
                  /\ calls' = <<>>
             ELSE IF NeedsSelectChain(c)
             THEN /\ pc' = "awaitSelectChain"
                  /\ error' = Undefined
                  /\ calls' = <<Call("selectChain", <<c.swapChainId>>)>>
             ELSE /\ pc' = "awaitSwapCallback"
                  /\ error' = Undefined
                  /\ calls' = <<Call(c.swapCallback, <<>>)>>
    /\ UNCHANGED <<account, providerVars, urlVars>>

\* lines 107-112: selectChain resolved to a truthy value (the wallet is now on
\* the swap chain, and the strategy is called) or to a falsy one.
SelectChainResolves(value) ==
    /\ pc = "awaitSelectChain"
    /\ correctChain' = value
    /\ IF value = "truthy"
       THEN /\ account' = [account EXCEPT !.chainId = cl.swapChainId]
            /\ pc' = "awaitSwapCallback"
            /\ calls' = Append(calls, Call(cl.swapCallback, <<>>))
            /\ error' = error
       ELSE /\ account' = account
            /\ pc' = "threw"
            /\ error' = "wallet must be on the correct chain"
            /\ calls' = calls
    /\ UNCHANGED <<cl, swapResult, ret, providerVars, urlVars>>

\* line 107: selectChain rejected; the await rethrows.
SelectChainRejects ==
    /\ pc = "awaitSelectChain"
    /\ pc' = "threw"
    /\ error' = "selectChain rejected"
    /\ UNCHANGED <<account, cl, calls, correctChain, swapResult, ret, providerVars, urlVars>>

\* lines 112-151: the strategy resolved; the swap is recorded and the result
\* returned.
SwapCallbackResolves(result) ==
    /\ pc = "awaitSwapCallback"
    /\ result \in StrategyResults(cl.swapCallback)
    /\ swapResult' = result
    /\ calls' = calls \o RecordSwap(cl, result)
    /\ ret' = result
    /\ pc' = "returned"
    /\ UNCHANGED <<account, cl, correctChain, error, providerVars, urlVars>>

\* line 112: the strategy rejected; the await rethrows.
SwapCallbackRejects ==
    /\ pc = "awaitSwapCallback"
    /\ pc' = "threw"
    /\ error' = "swapCallback rejected"
    /\ UNCHANGED <<account, cl, calls, correctChain, swapResult, ret, providerVars, urlVars>>

\* useAccount (line 74): the wallet connects, disconnects or changes chain on
\* its own at any time.
AccountChanges(acct) ==
    /\ acct # account
    /\ account' = acct
    /\ UNCHANGED <<cl, pc, calls, correctChain, swapResult, ret, error, providerVars, urlVars>>

InitAccount == [isConnected |-> FALSE, address |-> Undefined, chainId |-> Undefined]

InitSwap ==
    /\ account = InitAccount
    /\ cl = useSwapCallback(NoTrade, InitAccount, Undefined)
    /\ pc = "idle"
    /\ calls = <<>>
    /\ correctChain = "unset"
    /\ swapResult = NoResult
    /\ ret = NoResult
    /\ error = Undefined

NextSwap ==
    \/ \E trade \in Trades \cup {NoTrade}, swapChainId \in UniverseChainIds \cup {Undefined} :
          Invoke(trade, swapChainId)
    \/ \E value \in {"truthy", "falsy"} : SelectChainResolves(value)
    \/ SelectChainRejects
    \/ \E result \in SwapResults : SwapCallbackResolves(result)
    \/ SwapCallbackRejects
    \/ \E acct \in Accounts : AccountChanges(acct)


(***************************************************************************)
(* The ethers adapter.  A viem Client is an object: its identity is `id`.  *)
(* Connector clients come from the wallet (useConnectorClient), public     *)
(* clients from the configuration (useClient).  A connector client whose   *)
(* chain is not configured has no `chain` at run time.                     *)
(***************************************************************************)
NoClient == [id |-> Undefined, kind |-> Undefined, chain |-> Undefined]

ConnectorClients ==
    { [id |-> "w1", kind |-> "connector", chain |-> "Mainnet"],
      [id |-> "w2", kind |-> "connector", chain |-> "Base"],
      [id |-> "w3", kind |-> "connector", chain |-> Undefined] }

PublicClients ==
    { [id |-> "p1", kind |-> "public", chain |-> "Mainnet"],
      [id |-> "p2", kind |-> "public", chain |-> "Base"] }

Clients == ConnectorClients \cup PublicClients

ClientIds == {c.id : c \in Clients}

ProviderChainIds == {"Mainnet", "Base", Undefined}

NoNetwork == [chainId |-> Undefined, name |-> Undefined]

NoProvider == [transport |-> Undefined, network |-> NoNetwork, serial |-> 0]

MaxConstructed == 2

\* lines 24-32: the network of the provider.
Network(client, chainId) ==
    IF client.chain # Undefined
    THEN [chainId |-> client.chain, name |-> client.chain]
    ELSE IF chainId # Undefined
    THEN [chainId |-> chainId, name |-> "Unsupported"]
    ELSE NoNetwork

\* variant of LookupOrCreate: a provider constructed on every call, none cached
LookupOrCreateNoCache(client, network, cache, made) ==
    [ outcome |-> "returned",
      value |-> [transport |-> client.id, network |-> network, serial |-> made[client.id] + 1],
      providers |-> cache,
      constructed |-> [made EXCEPT ![client.id] = @ + 1] ]

\* lines 38-45: the cached provider of the client, or a new one that is cached.
\* A Web3Provider is an object: the serial tells two providers constructed from
\* the same client apart.
LookupOrCreate(client, network, cache, made) ==
    IF client.id \in DOMAIN cache
    THEN [outcome |-> "returned", value |-> cache[client.id],
          providers |-> cache, constructed |-> made]
    ELSE LET provider == [transport |-> client.id, network |-> network,
                          serial |-> made[client.id] + 1]
         IN [ outcome |-> "returned",
              value |-> provider,
              providers |-> [k \in DOMAIN cache \cup {client.id} |->
                               IF k = client.id THEN provider ELSE cache[k]],
              constructed |-> [made EXCEPT ![client.id] = @ + 1] ]

\* lines 16-46: clientToProvider.  Line 22 reads chain.contracts before chain is
\* tested, so a client without a chain throws a TypeError.
clientToProvider(client, chainId, cache, made) ==
    IF client = NoClient
    THEN [outcome |-> "returned", value |-> NoProvider, providers |-> cache, constructed |-> made]
    ELSE IF client.chain = Undefined
    THEN [outcome |-> "threw", value |-> NoProvider, providers |-> cache, constructed |-> made]
    ELSE IF Network(client, chainId) = NoNetwork
    THEN [outcome |-> "returned", value |-> NoProvider, providers |-> cache, constructed |-> made]
    ELSE LookupOrCreate(client, Network(client, chainId), cache, made)

\* variant of SelectClient: the account.chainId test left out
SelectClientPreferWallet(accountChainId, chainId, client, disconnectedClient) ==
    IF client # NoClient THEN client ELSE disconnectedClient

\* line 59: the client useEthersProvider converts.
SelectClient(accountChainId, chainId, client, disconnectedClient) ==
    IF accountChainId # chainId
    THEN disconnectedClient
    ELSE IF client # NoClient THEN client ELSE disconnectedClient

\* what a call leaves behind: its arguments, the client converted, the outcome
Last(op, accountChainId, chainId, client, disconnectedClient, selected, r) ==
    [ op |-> op, accountChainId |-> accountChainId, chainId |-> chainId,
      client |-> client, disconnectedClient |-> disconnectedClient,
      selected |-> selected, outcome |-> r.outcome, value |-> r.value,
      hit |-> selected.id \in DOMAIN providers ]

\* the model stops constructing providers for a client at MaxConstructed
Bounded(client) ==
    IF client = NoClient THEN TRUE ELSE constructed[client.id] < MaxConstructed

\* lines 16-46: a direct call of clientToProvider.
CallClientToProvider(client, chainId) ==
    /\ Bounded(client)
    /\ LET r == clientToProvider(client, chainId, providers, constructed)
       IN /\ providers' = r.providers
          /\ constructed' = r.constructed
          /\ last' = Last("clientToProvider", Undefined, chainId, NoClient, NoClient, client, r)
    /\ UNCHANGED <<swapVars, urlVars>>

\* lines 54-62: a render of useEthersProvider whose dependencies changed, so
\* that useMemo calls clientToProvider.
UseEthersProvider(accountChainId, chainId, client, disconnectedClient) ==
    LET selected == SelectClient(accountChainId, chainId, client, disconnectedClient)
        r == clientToProvider(selected, chainId, providers, constructed)
    IN /\ Bounded(selected)
       /\ providers' = r.providers
       /\ constructed' = r.constructed
       /\ last' = Last("useEthersProvider", accountChainId, chainId, client,
                       disconnectedClient, selected, r)
       /\ UNCHANGED <<swapVars, urlVars>>

\* lines 70-73: a render of useEthersWeb3Provider whose dependencies changed.
UseEthersWeb3Provider(chainId, client) ==
    /\ Bounded(client)
    /\ LET r == clientToProvider(client, chainId, providers, constructed)
       IN /\ providers' = r.providers
          /\ constructed' = r.constructed
          /\ last' = Last("useEthersWeb3Provider", Undefined, chainId, client, NoClient, client, r)
    /\ UNCHANGED <<swapVars, urlVars>>

InitProvider ==
    /\ providers = << >>
    /\ constructed = [k \in ClientIds |-> 0]
    /\ last = [ op |-> "none", accountChainId |-> Undefined, chainId |-> Undefined,
                client |-> NoClient, disconnectedClient |-> NoClient,
                selected |-> NoClient, outcome |-> "none", value |-> NoProvider,
                hit |-> FALSE ]

NextProvider ==
    \/ \E client \in Clients \cup {NoClient}, chainId \in ProviderChainIds :
          CallClientToProvider(client, chainId)
    \/ \E accountChainId \in ProviderChainIds, chainId \in ProviderChainIds,
          client \in ConnectorClients \cup {NoClient},
          disconnectedClient \in PublicClients \cup {NoClient} :
          UseEthersProvider(accountChainId, chainId, client, disconnectedClient)
    \/ \E chainId \in ProviderChainIds, client \in ConnectorClients \cup {NoClient} :
          UseEthersWeb3Provider(chainId, client)

(***************************************************************************)
(* wagmiConfig.ts: the RPC urls of a chain.  "" is an empty (falsy) url.   *)
(***************************************************************************)
MaxLen == 2

MaxTotal == 4

RpcUrls == {"", "a", "b"}

RECURSIVE SeqsOfLen(_)
SeqsOfLen(n) ==
    IF n = 0 THEN {<< >>}
    ELSE {Append(s, u) : s \in SeqsOfLen(n - 1), u \in RpcUrls}

SeqsUpTo(n) == UNION {SeqsOfLen(k) : k \in 0..n}

\* an entry of chain.rpcUrls: missing, or a list of urls
RpcUrlEntries ==
    {[defined |-> FALSE, http |-> << >>]}
    \cup {[defined |-> TRUE, http |-> s] : s \in SeqsUpTo(MaxLen)}

ChainInfos ==
    { c \in [interface : RpcUrlEntries, default : RpcUrlEntries,
             public : RpcUrlEntries, fallback : RpcUrlEntries] :
        Len(c.interface.http) + Len(c.default.http)
          + Len(c.public.http) + Len(c.fallback.http) <= MaxTotal }

\* `entry?.http ?? []`
HttpOrEmpty(entry) == IF entry.defined THEN entry.http ELSE << >>

\* filter(Boolean) on strings: the empty string is the falsy one.
RECURSIVE FilterBoolean(_)
FilterBoolean(s) ==
    IF s = << >> THEN << >>
    ELSE IF Head(s) = "" THEN FilterBoolean(Tail(s))
    ELSE <<Head(s)>> \o FilterBoolean(Tail(s))

InSeq(x, s) == \E i \in 1..Len(s) : s[i] = x

\* Array.from(new Set(s)): a Set keeps insertion order and drops a value it has.
RECURSIVE ArrayFromSetFrom(_, _)
ArrayFromSetFrom(s, acc) ==
    IF s = << >> THEN acc
    ELSE IF InSeq(Head(s), acc) THEN ArrayFromSetFrom(Tail(s), acc)
    ELSE ArrayFromSetFrom(Tail(s), Append(acc, Head(s)))

ArrayFromSet(s) == ArrayFromSetFrom(s, << >>)

\* variant of OrderedRpcUrls: default spread before interface
OrderedRpcUrlsDefaultFirst(c) ==
    HttpOrEmpty(c.default) \o HttpOrEmpty(c.interface)
      \o HttpOrEmpty(c.public) \o HttpOrEmpty(c.fallback)

\* lines 42-53: the four lists, spread in order.
OrderedRpcUrls(c) ==
    HttpOrEmpty(c.interface) \o HttpOrEmpty(c.default)
      \o HttpOrEmpty(c.public) \o HttpOrEmpty(c.fallback)

\* lines 41-57
orderedTransportUrls(c) == ArrayFromSet(FilterBoolean(OrderedRpcUrls(c)))

\* lines 137-141: fallback(urls.map((url) => http(url, ...)))
FallbackTransport(c) ==
    LET u == orderedTransportUrls(c)
    IN [type |-> "fallback", transports |-> [i \in 1..Len(u) |-> [type |-> "http", url |-> u[i]]]]

NoTransport == [type |-> Undefined, transports |-> << >>]

\* lines 41-57: orderedTransportUrls is called on the chain.
CallOrderedTransportUrls ==
    /\ step = "start"
    /\ urls' = orderedTransportUrls(chain)
    /\ step' = "urls"
    /\ UNCHANGED <<chain, transport, swapVars, providerVars>>

\* lines 129-143: the client of the chain is created.
CreateClient ==
    /\ step \in {"start", "urls"}
    /\ transport' = FallbackTransport(chain)
    /\ step' = "client"
    /\ UNCHANGED <<chain, urls, swapVars, providerVars>>

NextUrls == CallOrderedTransportUrls \/ CreateClient

InitUrls ==
    /\ chain \in ChainInfos
    /\ urls = << >>
    /\ transport = NoTransport
    /\ step = "start"

NoChainInfo ==
    [ interface |-> [defined |-> FALSE, http |-> << >>],
      default |-> [defined |-> FALSE, http |-> << >>],
      public |-> [defined |-> FALSE, http |-> << >>],
      fallback |-> [defined |-> FALSE, http |-> << >>] ]

IdleUrls ==
    /\ chain = NoChainInfo
    /\ urls = << >>
    /\ transport = NoTransport
    /\ step = "start"

(***************************************************************************)
(* Specifications: one per component; the other components stay idle.      *)
(***************************************************************************)
Init == InitSwap /\ InitProvider /\ IdleUrls

Next == NextSwap

Spec == Init /\ [][Next]_vars

SpecProvider == Init /\ [][NextProvider]_vars

InitChain == InitSwap /\ InitProvider /\ InitUrls

SpecUrls == InitChain /\ [][NextUrls]_vars

(***************************************************************************)
(* Properties of the swap callback (checked under Spec).                   *)
(***************************************************************************)
Strategies == {"uniswapXSwapCallback", "universalRouterSwapCallback"}

CallsTo(fns) == {i \in 1..Len(calls) : calls[i].fn \in fns}

Invoked == pc # "idle"

\* the inputs the callback rejects outright
Rejected(c) ==
    \/ c.trade = NoTrade
    \/ ~c.isConnected
    \/ c.address = Undefined
    \/ c.swapChainId = Undefined
    \/ c.swapChainId \notin {"Mainnet", "Base"}

\* C1: an invocation with no trade, with a wallet that is not connected or has
\* no address, with no swap chain id or with a swap chain id that is not an EVM
\* chain throws, and calls neither a strategy nor selectChain nor addOrder nor
\* addTransaction.
C1_ValidatesBeforeDelegating ==
    (Invoked /\ Rejected(cl)) =>
        /\ pc = "threw"
        /\ error # Undefined
        /\ calls = << >>
        /\ ret = NoResult

C1_Witness ==
    /\ pc = "threw"
    /\ cl.trade.variant = "uniswapx"
    /\ cl.isConnected
    /\ cl.address = "0xA"
    /\ cl.swapChainId = "Solana"
    /\ cl.supportedConnectedChainId = "Solana"

\* C2: the strategy an invocation calls is the UniswapX callback if and only if
\* the trade is a UniswapX trade, and the universal-router callback otherwise;
\* the other strategy is never called; the UniswapX hook is given the trade only
\* when it is a UniswapX trade, the universal-router hook only when it is a
\* classic trade, and each is given undefined otherwise.
C2_PicksOneStrategy ==
    /\ \A i \in CallsTo(Strategies) :
          calls[i].fn = "uniswapXSwapCallback" <=> cl.trade.variant = "uniswapx"
    /\ pc \in {"awaitSwapCallback", "returned"} => Cardinality(CallsTo(Strategies)) = 1
    /\ cl.uniswapXTrade = (IF cl.trade.variant = "uniswapx" THEN cl.trade ELSE NoTrade)
    /\ cl.universalRouterTrade = (IF cl.trade.variant = "classic" THEN cl.trade ELSE NoTrade)

C2_Witness ==
    /\ pc = "returned"
    /\ cl.trade.variant = "uniswapx"
    /\ CallsTo({"uniswapXSwapCallback"}) # {}
    /\ CallsTo({"universalRouterSwapCallback"}) = {}
    /\ cl.universalRouterTrade = NoTrade

\* C3: an invocation that returns has recorded the swap exactly once and returns
\* the strategy's result: for a UniswapX or UniswapXv2 result one addOrder (with
\* the result's orderHash, its deadline as expiry, and its encodedOrder) and no
\* addTransaction; for any other result one addTransaction with the result's
\* response and no addOrder; swapInfo.isUniswapXOrder is true exactly in the
\* addOrder case.
C3_RecordsOnce ==
    pc = "returned" =>
        /\ ret = swapResult
        /\ ret # NoResult
        /\ Cardinality(CallsTo({"addOrder", "addTransaction"})) = 1
        /\ LET rec == calls[Len(calls)]
           IN IF swapResult.type \in {"UniswapX", "UniswapXv2"}
              THEN /\ rec.fn = "addOrder"
                   /\ rec.args[1].orderHash = swapResult.response.orderHash
                   /\ rec.args[1].expiry = swapResult.response.deadline
                   /\ rec.args[1].encodedOrder = swapResult.response.encodedOrder
                   /\ rec.args[1].swapInfo.isUniswapXOrder = TRUE
              ELSE /\ rec.fn = "addTransaction"
                   /\ rec.args[1] = swapResult.response
                   /\ rec.args[2].isUniswapXOrder = FALSE

C3_Witness ==
    /\ pc = "returned"
    /\ swapResult.type = "UniswapXv2"
    /\ calls[Len(calls)].fn = "addOrder"
    /\ calls[Len(calls)].args[1].orderHash = "h2"
    /\ CallsTo({"addTransaction"}) = {}

\* the wallet is not on the swap chain, as far as the render knows
WrongChain(c) ==
    c.supportedConnectedChainId = Undefined \/ c.supportedConnectedChainId # c.swapChainId

\* C6: after the basic validation, when the connected chain is unsupported or is
\* not the swap chain, selectChain(swapChainId) is called first and the strategy
\* only once it has resolved to a truthy value; when it resolves to a falsy
\* value the invocation throws without calling the strategy, addOrder or
\* addTransaction; when the supported connected chain is the swap chain,
\* selectChain is not called.
C6_ChainBeforeSwap ==
    (Invoked /\ ~Rejected(cl)) =>
        /\ WrongChain(cl) =>
              /\ calls # << >>
              /\ calls[1] = Call("selectChain", <<cl.swapChainId>>)
              /\ CallsTo({"selectChain"}) = {1}
              /\ CallsTo(Strategies) # {} => (correctChain = "truthy" /\ CallsTo(Strategies) = {2})
              /\ correctChain = "falsy" =>
                    (pc = "threw" /\ error # Undefined /\ Len(calls) = 1)
              /\ correctChain = "truthy" => pc # "awaitSelectChain"
        /\ ~WrongChain(cl) => (CallsTo({"selectChain"}) = {} /\ CallsTo(Strategies) = {1})

C6_Witness ==
    /\ pc = "returned"
    /\ cl.supportedConnectedChainId = "Base"
    /\ cl.swapChainId = "Mainnet"
    /\ calls[1].fn = "selectChain"
    /\ calls[2].fn = "universalRouterSwapCallback"
    /\ calls[3].fn = "addTransaction"

\* C7: the chainId recorded with an order is a defined supported chain id; after
\* an invocation that switched chains via selectChain, it is the swap chain id.
C7_OrderChainIdDefined ==
    \A i \in CallsTo({"addOrder"}) :
        /\ calls[i].args[1].chainId \in UniverseChainIds
        /\ CallsTo({"selectChain"}) # {} => calls[i].args[1].chainId = cl.swapChainId

(***************************************************************************)
(* Properties of the ethers adapter (checked under SpecProvider).          *)
(***************************************************************************)
C4_CacheInvariant ==
    /\ \A k \in ClientIds : constructed[k] <= 1
    /\ \A k \in DOMAIN providers :
          /\ providers[k].transport = k
          /\ providers[k].serial = 1
          /\ constructed[k] = 1
    /\ \A k1, k2 \in DOMAIN providers : k1 # k2 => providers[k1] # providers[k2]
    /\ (last.op # "none" /\ last.selected # NoClient /\ last.outcome = "returned") =>
          /\ last.selected.id \in DOMAIN providers
          /\ last.value = providers[last.selected.id]
          /\ last.value.network.chainId = last.selected.chain
    /\ (last.op # "none" /\ last.selected = NoClient) =>
          (last.outcome = "returned" /\ last.value = NoProvider)

C4_CacheStep ==
    /\ \A k \in DOMAIN providers : k \in DOMAIN providers' /\ providers'[k] = providers[k]
    /\ last'.selected = NoClient => (providers' = providers /\ constructed' = constructed)

\* C4: at most one Web3Provider is ever constructed for a client; every call
\* with that client returns that provider, whatever chainId is passed; two
\* clients never share a provider; a call with no client returns undefined and
\* neither creates nor caches anything.
C4_MemoizedPerClient == []C4_CacheInvariant /\ [][C4_CacheStep]_vars

C4_Witness ==
    /\ last.op = "clientToProvider"
    /\ last.hit
    /\ last.selected.id = "w1"
    /\ last.chainId = "Base"
    /\ last.value = providers["w1"]
    /\ last.value.network.chainId = "Mainnet"
    /\ "p1" \in DOMAIN providers

\* C8: useEthersProvider converts the connector client only when the account's
\* chain id equals the requested chainId and a connector client exists;
\* otherwise it converts the disconnected client, so a provider backed by the
\* wallet is never returned for a chain the wallet is not on.
\* useEthersWeb3Provider returns undefined when no connector client exists.
C8_FallsBackToDisconnectedClient ==
    /\ last.op = "useEthersProvider" =>
          /\ last.selected \in ConnectorClients =>
                (last.accountChainId = last.chainId /\ last.selected = last.client)
          /\ (last.accountChainId # last.chainId \/ last.client = NoClient) =>
                last.selected = last.disconnectedClient
          /\ (last.accountChainId = last.chainId /\ last.client # NoClient) =>
                last.selected = last.client
          /\ last.value # NoProvider => last.value.transport = last.selected.id
          /\ last.value.transport \in {c.id : c \in ConnectorClients} =>
                last.accountChainId = last.chainId
    /\ (last.op = "useEthersWeb3Provider" /\ last.client = NoClient) =>
          (last.outcome = "returned" /\ last.value = NoProvider)

C8_Witness ==
    /\ last.op = "useEthersProvider"
    /\ last.accountChainId = "Base"
    /\ last.chainId = "Mainnet"
    /\ last.client.id = "w1"
    /\ last.disconnectedClient.id = "p1"
    /\ last.value.transport = "p1"

(***************************************************************************)
(* Properties of orderedTransportUrls (checked under SpecUrls).            *)
(***************************************************************************)
\* the four lists in the order interface, default, public, fallback
AllRpcUrls(c) ==
    (IF c.interface.defined THEN c.interface.http ELSE << >>)
      \o (IF c.default.defined THEN c.default.http ELSE << >>)
      \o (IF c.public.defined THEN c.public.http ELSE << >>)
      \o (IF c.fallback.defined THEN c.fallback.http ELSE << >>)

FirstIndex(s, x) == CHOOSE i \in 1..Len(s) : s[i] = x /\ \A j \in 1..(i - 1) : s[j] # x

\* out is all without its empty entries and without repetitions, first
\* occurrences kept in order
IsOrderedDedup(out, all) ==
    /\ \A i, j \in 1..Len(out) : i # j => out[i] # out[j]
    /\ \A i \in 1..Len(out) : out[i] # "" /\ InSeq(out[i], all)
    /\ \A i \in 1..Len(all) : all[i] # "" => InSeq(all[i], out)
    /\ \A i, j \in 1..Len(out) : i < j => FirstIndex(all, out[i]) < FirstIndex(all, out[j])

\* C5: orderedTransportUrls returns the chain's urls in the order interface,
\* default, public, fallback, without empty entries and without duplicates, the
\* first occurrence kept; the fallback transport is one http transport per url
\* of that list, in the same order.
C5_OrderedDedupedUrls ==
    /\ step = "urls" => IsOrderedDedup(urls, AllRpcUrls(chain))
    /\ step = "client" =>
          /\ transport.type = "fallback"
          /\ \A i \in 1..Len(transport.transports) : transport.transports[i].type = "http"
          /\ IsOrderedDedup([i \in 1..Len(transport.transports) |-> transport.transports[i].url],
                            AllRpcUrls(chain))

C5_Witness ==
    /\ step = "client"
    /\ chain.interface = [defined |-> TRUE, http |-> <<"b", "">>]
    /\ chain.default = [defined |-> TRUE, http |-> <<"a", "b">>]
    /\ ~chain.public.defined
    /\ urls = <<"b", "a">>
    /\ Len(transport.transports) = 2
    /\ transport.transports[1].url = "b"
    /\ transport.transports[2].url = "a"

====
